---- MODULE Spec2Model ----
(***************************************************************************)
(* Model of milo_1_0_3/electronic_structure_program_handler.py: the        *)
(* Gaussian (g16/g09) and ORCA handlers that parse an engine log into the   *)
(* energies and forces histories of the program state.                      *)
(*                                                                          *)
(* A log is a sequence of lines, a line the sequence of its whitespace      *)
(* separated tokens (what str.split() returns); a blank line is << >>.      *)
(* A float is modelled by an integer number of tenths.                      *)
(***************************************************************************)
EXTENDS Integers, Sequences, FiniteSets, TLC

VARIABLES program_id, current_step, pc, energies, forces, log_file, raised,
          energies0, forces0, scanned

vars == <<program_id, current_step, pc, energies, forces, log_file, raised,
          energies0, forces0, scanned>>

\* ------------------------------------------------------------------ bounds
\* longest log of arbitrary lines
MaxLen == 3
\* most table lines of a forces section, most rows of a gradient block
MaxBody == 2
\* steps of one run
MaxSteps == 1
\* len(program_state.atoms)
NumAtoms == 2

\* ------------------------------------------------- Python built-ins used
\* float(token): the tokens float() accepts, with their value in tenths.
FloatTable ==
    ("1" :> 10) @@ ("2" :> 20) @@ ("8" :> 80) @@ ("0.1" :> 1) @@ ("-0.2" :> -2)
    @@ ("-76.1" :> -761) @@ ("-76.3" :> -763)

\* int(token): the tokens int() accepts.
IntTable == ("1" :> 1) @@ ("2" :> 2) @@ ("8" :> 8)

CanFloat(tok) == tok \in DOMAIN FloatTable
float(tok) == FloatTable[tok]
CanInt(tok) == tok \in DOMAIN IntTable

\* tok.startswith(word), for the words of the markers.
StartsWith(tok, word) ==
    \/ tok = word
    \/ <<tok, word>> \in {<<"Done:", "Done">>, <<"Forces:", "Forces">>}

\* tok.endswith(word): no token of the alphabet ends with a marker word
\* without being that word.
EndsWith(tok, word) == tok = word

\* `marker in line`, marker a sequence of words separated by single spaces:
\* the words are found on consecutive tokens, the first ending a token and
\* the last beginning one.
MatchesAt(line, marker, i) ==
    /\ i + Len(marker) - 1 <= Len(line)
    /\ \A k \in 1..Len(marker) :
          IF k = 1 THEN EndsWith(line[i], marker[1])
          ELSE IF k = Len(marker) THEN StartsWith(line[i + k - 1], marker[k])
          ELSE line[i + k - 1] = marker[k]

Contains(line, marker) == \E i \in 1..Len(line) : MatchesAt(line, marker, i)

\* lines[ind] with Python's indexing: 0-based, negative indices count from
\* the end, anything else is an IndexError.
PyValid(lines, ind) == -Len(lines) <= ind /\ ind < Len(lines)
PyAt(lines, ind) == IF ind >= 0 THEN lines[ind + 1] ELSE lines[Len(lines) + ind + 1]

\* ------------------------------------------------------------- markers
NormalTermination == <<"Normal", "termination">>
SCFDone == <<"SCF", "Done">>
ForcesHeader == <<"Forces", "(Hartrees/Bohr)">>
CartesianForces == <<"Cartesian", "Forces">>
CartesianGradient == <<"CARTESIAN", "GRADIENT">>
FinalEnergy == <<"FINAL", "SINGLE", "POINT", "ENERGY">>

\* ------------------------------------------------------ containers
\* containers.Energies.append(value, units)
EnergiesAppend(energy, value) == Append(energy, <<value, "HARTREE">>)

\* containers.Forces.append(x, y, z, units)
ForcesAppend(container, x, y, z) == Append(container, <<x, y, z, "HARTREE_PER_BOHR">>)

\* containers.Forces.append(*values, units) takes exactly x, y, z before
\* the units: any other number of positional arguments is a TypeError.
ForcesAppendArgsOk(values) == Len(values) = 3

\* ------------------------------------------------------- GaussianHandler
\* is_log_good looking for "termination" alone, which "Error termination"
\* has too
is_log_good_any_termination(lines) ==
    \E i \in 1..Len(lines) : Contains(lines[i], <<"termination">>)

\* is_log_good
is_log_good(lines) == \E i \in 1..Len(lines) : Contains(lines[i], NormalTermination)

\* float(tokens[k]) with k 0-based: the exception it raises, "" when none.
FloatAtExc(tokens, k) ==
    IF k + 1 > Len(tokens) THEN "IndexError"
    ELSE IF ~CanFloat(tokens[k + 1]) THEN "ValueError"
    ELSE ""

\* the first exception of x = float(tokens[2]); y = float(tokens[3]);
\* z = float(tokens[4]), "" when none.
AtomLineExc(tokens) ==
    IF FloatAtExc(tokens, 2) # "" THEN FloatAtExc(tokens, 2)
    ELSE IF FloatAtExc(tokens, 3) # "" THEN FloatAtExc(tokens, 3)
    ELSE FloatAtExc(tokens, 4)

\* x = float(tokens[2]); y = float(tokens[3]); z = float(tokens[4])
AtomForce(tokens) == <<float(tokens[3]), float(tokens[4]), float(tokens[5])>>

\* The inner loop `for data_line in log_file` of parse_forces, from line j
\* (1-based).  energy is this call's Energies container, nrefs the number of
\* times it has been appended to program_state.energies, container the
\* Forces container.  Exhausting the file ends the outer loop too, and
\* parse_forces returns normally without appending the forces.
RECURSIVE GaussianDataLines(_, _, _, _, _)
GaussianDataLines(lines, j, energy, nrefs, container) ==
    IF j > Len(lines)
    THEN [exc |-> "", energy |-> energy, nrefs |-> nrefs,
          container |-> container, appended |-> FALSE]
    ELSE LET tokens == lines[j] IN
      IF Contains(tokens, CartesianForces)
      THEN [exc |-> "", energy |-> energy, nrefs |-> nrefs,
            container |-> container, appended |-> TRUE]
      ELSE IF Len(tokens) = 0
      THEN [exc |-> "IndexError", energy |-> energy, nrefs |-> nrefs,
            container |-> container, appended |-> FALSE]
      ELSE IF ~CanInt(tokens[1])
      THEN GaussianDataLines(lines, j + 1, energy, nrefs, container)
      ELSE IF AtomLineExc(tokens) # ""
      THEN [exc |-> AtomLineExc(tokens), energy |-> energy, nrefs |-> nrefs,
            container |-> container, appended |-> FALSE]
      ELSE LET v == AtomForce(tokens) IN
           GaussianDataLines(lines, j + 1, energy, nrefs,
                             ForcesAppend(container, v[1], v[2], v[3]))

\* The outer loop `for line in log_file` of parse_forces, from line i.
RECURSIVE GaussianLines(_, _, _, _)
GaussianLines(lines, i, energy, nrefs) ==
    IF i > Len(lines)
    THEN [exc |-> "", energy |-> energy, nrefs |-> nrefs,
          container |-> << >>, appended |-> FALSE]
    ELSE LET line == lines[i]
             scf == Contains(line, SCFDone)
             exc == IF scf THEN FloatAtExc(line, 4) ELSE ""
             energy1 == IF scf /\ exc = "" THEN EnergiesAppend(energy, float(line[5]))
                        ELSE energy
             nrefs1 == IF scf /\ exc = "" THEN nrefs + 1 ELSE nrefs
         IN
      IF exc # ""
      THEN [exc |-> exc, energy |-> energy, nrefs |-> nrefs,
            container |-> << >>, appended |-> FALSE]
      ELSE IF Contains(line, ForcesHeader)
      THEN GaussianDataLines(lines, i + 1, energy1, nrefs1, << >>)
      ELSE GaussianLines(lines, i + 1, energy1, nrefs1)

\* The histories a scan leaves: program_state.energies holds nrefs more
\* references to the one Energies container of the call, which therefore all
\* show its final content.
Commit(r, es, fs) ==
    [exc |-> r.exc,
     energies |-> es \o [k \in 1..r.nrefs |-> r.energy],
     forces |-> IF r.appended THEN Append(fs, r.container) ELSE fs,
     scanned |-> 0]

\* GaussianHandler.parse_forces
GaussianParseForces(lines, es, fs) ==
    IF ~is_log_good(lines)
    THEN [exc |-> "ElectronicStructureProgramError", energies |-> es,
          forces |-> fs, scanned |-> 0]
    ELSE Commit(GaussianLines(lines, 1, << >>, 0), es, fs)

\* ----------------------------------------------------------- OrcaHandler
\* the scan stopping at the first line instead of running off the list
RECURSIVE ScanBackClamped(_, _, _, _)
ScanBackClamped(lines, ind, marker, steps) ==
    IF ~PyValid(lines, ind)
    THEN [exc |-> "IndexError", ind |-> ind, steps |-> steps + 1]
    ELSE IF Contains(PyAt(lines, ind), marker) \/ ind = 0
    THEN [exc |-> "", ind |-> ind, steps |-> steps + 1]
    ELSE ScanBackClamped(lines, ind - 1, marker, steps + 1)

\* `while lines[ind].find(marker) == -1: ind -= 1`: the index the loop stops
\* at, or the IndexError of lines[ind]; steps counts the evaluations of
\* lines[ind].
RECURSIVE ScanBack(_, _, _, _)
ScanBack(lines, ind, marker, steps) ==
    IF ~PyValid(lines, ind)
    THEN [exc |-> "IndexError", ind |-> ind, steps |-> steps + 1]
    ELSE IF Contains(PyAt(lines, ind), marker)
    THEN [exc |-> "", ind |-> ind, steps |-> steps + 1]
    ELSE ScanBack(lines, ind - 1, marker, steps + 1)

\* [-float(i) for i in sline[3:]]
RECURSIVE NegatedFloats(_)
NegatedFloats(toks) ==
    IF toks = << >> THEN << >>
    ELSE <<0 - float(Head(toks))>> \o NegatedFloats(Tail(toks))

\* sline[3:]
GradientTokens(sline) == SubSeq(sline, 4, Len(sline))

\* `while lines[ind].strip() != "": ... ind += 1`: the forces collected and
\* the index of the blank line that ends the block.
RECURSIVE GradientBlock(_, _, _)
GradientBlock(lines, ind, container) ==
    IF ~PyValid(lines, ind)
    THEN [exc |-> "IndexError", ind |-> ind, container |-> container]
    ELSE LET sline == PyAt(lines, ind)
             toks == GradientTokens(sline)
         IN
      IF sline = << >>
      THEN [exc |-> "", ind |-> ind, container |-> container]
      ELSE IF \E k \in 1..Len(toks) : ~CanFloat(toks[k])
      THEN [exc |-> "ValueError", ind |-> ind, container |-> container]
      ELSE IF ~ForcesAppendArgsOk(toks)
      THEN [exc |-> "TypeError", ind |-> ind, container |-> container]
      ELSE LET v == NegatedFloats(toks) IN
           GradientBlock(lines, ind + 1, ForcesAppend(container, v[1], v[2], v[3]))

\* the block taken to start two lines after its marker line
BlockStartTwo(ind) == ind + 2

\* `ind += 3`: the line the gradient block starts at, from the index of its
\* marker line
BlockStart(ind) == ind + 3

\* the search for the energy line restarted from the end of the log
EnergyScanFromEnd(lines, ind) == Len(lines) - 1

\* the index the search for the energy line starts at: ind is left where the
\* gradient block ended, on its blank line
EnergyScanStart(lines, ind) == ind

\* OrcaHandler.parse_forces
OrcaParseForces(lines, es, fs) ==
    LET g == ScanBack(lines, Len(lines) - 1, CartesianGradient, 0)
        failed(exc) == [exc |-> exc, energies |-> es, forces |-> fs,
                        scanned |-> g.steps]
    IN
    IF g.exc # "" THEN failed(g.exc)
    ELSE LET b == GradientBlock(lines, BlockStart(g.ind), << >>) IN
      IF b.exc # "" THEN failed(b.exc)
      ELSE LET e == ScanBack(lines, EnergyScanStart(lines, b.ind), FinalEnergy, 0) IN
        IF e.exc # "" THEN failed(e.exc)
        ELSE LET tokens == PyAt(lines, e.ind) IN
          IF Len(tokens) = 0 THEN failed("IndexError")
          ELSE IF ~CanFloat(tokens[Len(tokens)]) THEN failed("ValueError")
          ELSE [exc |-> "",
                energies |-> Append(es, EnergiesAppend(<< >>, float(tokens[Len(tokens)]))),
                forces |-> Append(fs, b.container),
                scanned |-> g.steps]

\* ------------------------------------------------------------ dispatcher
ProgramIDs == {"GAUSSIAN_16", "GAUSSIAN_09", "ORCA_5"}

\* get_program_handler
get_program_handler(pid) ==
    CASE pid = "GAUSSIAN_16" -> "Gaussian16Handler"
      [] pid = "GAUSSIAN_09" -> "Gaussian09Handler"
      [] pid = "ORCA_5" -> "OrcaHandler"
      [] OTHER -> "ValueError"

\* ------------------------------------------------------ the logs drawn
SeqsUpTo(S, n) == UNION {[1..k -> S] : k \in 0..n}

Blank == << >>
Dashes == <<"-------">>

NT == <<"Normal", "termination">>
ErrTerm == <<"Error", "termination">>
Scf1 == <<"SCF", "Done:", "E(RHF)", "=", "-76.1">>
Scf2 == <<"SCF", "Done:", "E(RHF)", "=", "-76.3">>
ScfBad == <<"SCF", "Done:", "E(RHF)", "=">>
Fhdr == <<"Atomic", "Forces", "(Hartrees/Bohr)">>
Atom1 == <<"1", "8", "0.1", "-0.2", "1">>
Atom2 == <<"2", "1", "-0.2", "2", "0.1">>
AtomBad == <<"2", "1", "0.1", "****">>
Cart == <<"Cartesian", "Forces:", "Max", "0.1">>

\* any arrangement of up to MaxLen of these lines
GaussianLinePool == {NT, Scf1, ScfBad, Fhdr, AtomBad, Cart}

\* logs with a forces table: the energy lines, the header, up to MaxBody
\* table lines, the closing line, and what follows it
GaussianTableLogs ==
    { scf \o <<Fhdr>> \o body \o <<Cart>> \o rest :
        scf \in {<< >>, <<Scf1>>, <<Scf1, Scf2>>},
        body \in SeqsUpTo({Atom1, Atom2, Dashes, Blank}, MaxBody),
        rest \in {<<NT>>, <<ErrTerm>>, <<Scf2, Fhdr, Atom2, Cart, NT>>} }

GaussianLogs == SeqsUpTo(GaussianLinePool, MaxLen) \cup GaussianTableLogs

Grad == <<"CARTESIAN", "GRADIENT">>
Row1 == <<"1", "O", ":", "0.1", "-0.2", "1">>
Row2 == <<"2", "H", ":", "-0.2", "2", "0.1">>
RowLong == <<"2", "H", ":", "0.1", "0.1", "-0.2", "1">>
RowBad == <<"2", "H", ":", "0.1", "****", "1">>
Fspe1 == <<"FINAL", "SINGLE", "POINT", "ENERGY", "-76.1">>
Fspe2 == <<"FINAL", "SINGLE", "POINT", "ENERGY", "-76.3">>

\* any arrangement of up to MaxLen + 2 of these lines
OrcaLinePool == {Grad, Row1, Fspe1, Blank}

\* logs with a gradient block: what precedes it, the marker, the two lines
\* the parser skips, up to MaxBody rows, the blank line, and what follows
OrcaBlockLogs ==
    { pre \o <<Grad, Dashes, Blank>> \o rows \o <<Blank>> \o post :
        pre \in {<< >>, <<Fspe1>>, <<Grad, Dashes, Blank, Row1, Blank, Fspe1>>},
        rows \in SeqsUpTo({Row1, Row2, RowLong, RowBad}, MaxBody),
        post \in {<< >>, <<Fspe2>>, <<Dashes>>} }

OrcaLogs == SeqsUpTo(OrcaLinePool, MaxLen + 2) \cup OrcaBlockLogs

\* ------------------------------------------------------ the state machine
\* The program state as the caller hands it over for its first step.
Init ==
    /\ program_id \in ProgramIDs
    /\ current_step = 0
    /\ pc = "ready"
    /\ energies = << >>
    /\ forces = << >>
    /\ log_file = << >>
    /\ raised = ""
    /\ energies0 = << >>
    /\ forces0 = << >>
    /\ scanned = 0

\* what generate_forces leaves, r the result of parse_forces on the log the
\* engine wrote; energies0 and forces0 keep the histories as they were when
\* the call was made
Finish(lines, r) ==
    /\ pc' = "done"
    /\ log_file' = lines
    /\ raised' = r.exc
    /\ energies' = r.energies
    /\ forces' = r.forces
    /\ scanned' = r.scanned
    /\ energies0' = energies
    /\ forces0' = forces
    /\ UNCHANGED <<program_id, current_step>>

\* GaussianHandler.generate_forces, as Gaussian16Handler
Gaussian16GenerateForces ==
    /\ pc = "ready"
    /\ current_step < MaxSteps
    /\ get_program_handler(program_id) = "Gaussian16Handler"
    /\ \E lines \in GaussianLogs : Finish(lines, GaussianParseForces(lines, energies, forces))

\* GaussianHandler.generate_forces, as Gaussian09Handler
Gaussian09GenerateForces ==
    /\ pc = "ready"
    /\ current_step < MaxSteps
    /\ get_program_handler(program_id) = "Gaussian09Handler"
    /\ \E lines \in GaussianLogs : Finish(lines, GaussianParseForces(lines, energies, forces))

\* OrcaHandler.generate_forces
OrcaGenerateForces ==
    /\ pc = "ready"
    /\ current_step < MaxSteps
    /\ get_program_handler(program_id) = "OrcaHandler"
    /\ \E lines \in OrcaLogs : Finish(lines, OrcaParseForces(lines, energies, forces))

\* The caller moves on to the next step, whose artifacts do not exist yet.
NextStep ==
    /\ pc = "done"
    /\ pc' = "ready"
    /\ current_step' = current_step + 1
    /\ log_file' = << >>
    /\ raised' = ""
    /\ scanned' = 0
    /\ energies0' = energies
    /\ forces0' = forces
    /\ UNCHANGED <<program_id, energies, forces>>

Next ==
    \/ Gaussian16GenerateForces
    \/ Gaussian09GenerateForces
    \/ OrcaGenerateForces
    \/ NextStep

Spec == Init /\ [][Next]_vars

\* ------------------------------------------------------------ properties
Gaussian == program_id \in {"GAUSSIAN_16", "GAUSSIAN_09"}
Orca == program_id = "ORCA_5"
\* generate_forces has returned normally / has raised
Returned == pc = "done" /\ raised = ""
Raised == pc = "done" /\ raised # ""

\* the lines of the log that contain the marker
Marked(lines, marker) == {i \in 1..Len(lines) : Contains(lines[i], marker)}
Min(S) == CHOOSE i \in S : \A j \in S : i <= j
Max(S) == CHOOSE i \in S : \A j \in S : j <= i
LastOf(history) == history[Len(history)]

\* C1: a Gaussian log in which no line contains "Normal termination" makes
\* generate_forces raise ElectronicStructureProgramError, whatever else the
\* log contains (energy lines, well or ill formed, a forces table), and
\* leaves both histories as they were.
C1_NoSuccessMarkerRaises ==
    (pc = "done" /\ Gaussian /\ Marked(log_file, NormalTermination) = {})
        => /\ raised = "ElectronicStructureProgramError"
           /\ energies = energies0
           /\ forces = forces0

\* a log with energy lines and a forces table but no success marker was
\* rejected
C1_Witness ==
    /\ pc = "done" /\ Gaussian
    /\ Marked(log_file, NormalTermination) = {}
    /\ Marked(log_file, SCFDone) # {}
    /\ Marked(log_file, ForcesHeader) # {}
    /\ Marked(log_file, CartesianForces) # {}
    /\ raised = "ElectronicStructureProgramError"

\* C2: whenever generate_forces returns without raising, each history has
\* grown by exactly one container.
C2_ReturnAppendsOneEach ==
    Returned => /\ Len(energies) = Len(energies0) + 1
                /\ Len(forces) = Len(forces0) + 1

\* C3: whenever generate_forces raises, neither history holds a container
\* that was not there before the call.
C3_RaiseCommitsNothing ==
    Raised => energies = energies0 /\ forces = forces0

\* C4: the Force container appended by a call that returns normally has as
\* many entries as there are atoms.
C4_ForceCountIsAtomCount ==
    (Returned /\ Len(forces) > Len(forces0)) => Len(LastOf(forces)) = NumAtoms

\* --- the forces table of a Gaussian log
\* an atom line: an integer first, the force components in tokens 3-5
IsAtomLine(tokens) ==
    /\ Len(tokens) >= 5
    /\ CanInt(tokens[1])
    /\ CanFloat(tokens[3]) /\ CanFloat(tokens[4]) /\ CanFloat(tokens[5])
\* a line that does not begin with an integer token
IsSeparator(tokens) == Len(tokens) = 0 \/ ~CanInt(tokens[1])
\* a line that begins with a token that is not an integer
IsNonBlankSeparator(tokens) == Len(tokens) > 0 /\ ~CanInt(tokens[1])
\* a well formed energy line
IsScfLine(tokens) ==
    Contains(tokens, SCFDone) /\ Len(tokens) >= 5 /\ CanFloat(tokens[5])

\* the header line of the forces section, its closing line, the table lines
HeaderLine(lines) == Min(Marked(lines, ForcesHeader))
ClosingLine(lines) ==
    Min({i \in Marked(lines, CartesianForces) : i > HeaderLine(lines)})
TableLines(lines) == (HeaderLine(lines) + 1)..(ClosingLine(lines) - 1)
AtomLines(lines) == {j \in TableLines(lines) : IsAtomLine(lines[j])}
\* the energy lines up to the forces section
ScfLines(lines) == {i \in Marked(lines, SCFDone) : i <= HeaderLine(lines)}

\* the success marker, a forces section closed by "Cartesian Forces" whose
\* lines are atom lines or separators, and well formed energy lines before
\* it
HasTable(lines, Sep(_)) ==
    /\ Marked(lines, NormalTermination) # {}
    /\ Marked(lines, ForcesHeader) # {}
    /\ \E i \in Marked(lines, CartesianForces) : i > HeaderLine(lines)
    /\ \A j \in TableLines(lines) : IsAtomLine(lines[j]) \/ Sep(lines[j])
    /\ \A i \in ScfLines(lines) : IsScfLine(lines[i])

\* the container holds the x, y, z of the atom lines, in log order
HoldsAtomLines(container, lines) ==
    /\ Len(container) = Cardinality(AtomLines(lines))
    /\ \A j \in AtomLines(lines) :
          LET i == Cardinality({k \in AtomLines(lines) : k <= j})
              tokens == lines[j]
          IN <<container[i][1], container[i][2], container[i][3]>>
               = <<float(tokens[3]), float(tokens[4]), float(tokens[5])>>

\* what C5 promises of a call
OneEnergyAndTheTable ==
    /\ raised = ""
    /\ Len(energies) = Len(energies0) + 1
    /\ Len(LastOf(energies)) = 1
    /\ Len(forces) = Len(forces0) + 1
    /\ HoldsAtomLines(LastOf(forces), log_file)

\* C5: with exactly one energy line before the forces section and a table
\* of atom lines and lines that do not begin with an integer token (a blank
\* line is one), parse_forces returns normally with one Energy entry and
\* the N atom lines as Force entries, in order.
C5_TableParsed ==
    (pc = "done" /\ Gaussian /\ HasTable(log_file, IsSeparator)
       /\ Cardinality(ScfLines(log_file)) = 1)
        => OneEnergyAndTheTable

\* The same holds of the tables whose separator lines all have a first
\* token.
TableParsedWithoutBlankLines ==
    (pc = "done" /\ Gaussian /\ HasTable(log_file, IsNonBlankSeparator)
       /\ Cardinality(ScfLines(log_file)) = 1)
        => OneEnergyAndTheTable

\* --- the gradient block of an ORCA log
LastGradientLine(lines) == Max(Marked(lines, CartesianGradient))
\* the blank line that ends the block that starts three lines after marker m
BlockEnd(lines, m) == Min({j \in (m + 3)..Len(lines) : lines[j] = << >>})
\* the negation of the last three tokens of a row
NegatedGradient(row) ==
    <<0 - float(row[Len(row) - 2]), 0 - float(row[Len(row) - 1]),
      0 - float(row[Len(row)])>>

\* C6: after an ORCA parse that returns normally, the Force container holds
\* one entry per row between the third line after the last "CARTESIAN
\* GRADIENT" line and the first blank line from there, in row order, each
\* the negation of the last three tokens of its row.
C6_ForcesAreLastBlockNegated ==
    (Returned /\ Orca) =>
        /\ Marked(log_file, CartesianGradient) # {}
        /\ LET m == LastGradientLine(log_file) IN
           /\ \E j \in (m + 3)..Len(log_file) : log_file[j] = << >>
           /\ LET container == LastOf(forces)
                  n == BlockEnd(log_file, m) - (m + 3)
              IN /\ Len(forces) = Len(forces0) + 1
                 /\ Len(container) = n
                 /\ \A i \in 1..n :
                       /\ Len(log_file[m + 2 + i]) >= 3
                       /\ <<container[i][1], container[i][2], container[i][3]>>
                            = NegatedGradient(log_file[m + 2 + i])

\* a log with two gradient blocks was parsed, and the forces are two rows
\* of the second
C6_Witness ==
    /\ Returned /\ Orca
    /\ Cardinality(Marked(log_file, CartesianGradient)) = 2
    /\ Len(LastOf(forces)) = 2
    /\ LastOf(forces)[1] # LastOf(forces)[2]

\* the energy lines up to the blank line that ends the last gradient block
EnergyLinesBefore(lines) ==
    {i \in Marked(lines, FinalEnergy) :
        i <= BlockEnd(lines, LastGradientLine(lines))}
\* the value an energy line gives
EnergyOf(tokens) == <<<<float(tokens[Len(tokens)]), "HARTREE">>>>

\* C7 as stated: after an ORCA parse that returns normally, the energy
\* appended is the last token of the last line of the whole log that
\* contains "FINAL SINGLE POINT ENERGY", wherever that line lies.
C7_EnergyIsLastInLog ==
    (Returned /\ Orca) =>
        /\ Marked(log_file, FinalEnergy) # {}
        /\ LastOf(energies) = EnergyOf(log_file[Max(Marked(log_file, FinalEnergy))])

\* C7 amended: the energy appended is the last token of the last "FINAL
\* SINGLE POINT ENERGY" line that lies before the end of the last gradient
\* block; only when no such line lies there is it that of the last such
\* line of the whole log.
C7_EnergyIsLastBeforeBlockEnd ==
    (Returned /\ Orca) =>
        /\ Marked(log_file, FinalEnergy) # {}
        /\ Len(energies) = Len(energies0) + 1
        /\ LastOf(energies) =
             EnergyOf(log_file[
                IF EnergyLinesBefore(log_file) # {}
                THEN Max(EnergyLinesBefore(log_file))
                ELSE Max(Marked(log_file, FinalEnergy))])

\* a log with one energy before the gradient block and another after it was
\* parsed
C7_Witness ==
    /\ Returned /\ Orca
    /\ EnergyLinesBefore(log_file) # {}
    /\ \E i \in Marked(log_file, FinalEnergy) :
          /\ i > BlockEnd(log_file, LastGradientLine(log_file))
          /\ EnergyOf(log_file[i]) # LastOf(energies)

\* C8: for a Gaussian log with the success marker and k >= 1 energy lines
\* before a complete forces section, the Energy container of the call holds
\* only the last of the k scalars, and nothing after the "Cartesian Forces"
\* line changes either history.
C8_OnlyLastEnergyKept ==
    (pc = "done" /\ Gaussian /\ HasTable(log_file, IsNonBlankSeparator)
       /\ ScfLines(log_file) # {})
        => /\ raised = ""
           /\ LET tokens == log_file[Max(ScfLines(log_file))] IN
              LastOf(energies) = <<<<float(tokens[5]), "HARTREE">>>>
           /\ Len(forces) = Len(forces0) + 1
           /\ HoldsAtomLines(LastOf(forces), log_file)

\* C9: an ORCA log, the empty one included, in which no line contains
\* "CARTESIAN GRADIENT" makes parse_forces raise IndexError after a bounded
\* number of steps of the backward scan, with both histories unchanged.
C9_NoGradientMarkerIndexError ==
    (pc = "done" /\ Orca /\ Marked(log_file, CartesianGradient) = {})
        => /\ raised = "IndexError"
           /\ scanned <= 2 * Len(log_file) + 1
           /\ energies = energies0
           /\ forces = forces0

\* a log with an energy line, rows and a blank line but no gradient marker
\* was scanned through twice before the fault
C9_Witness ==
    /\ pc = "done" /\ Orca
    /\ Marked(log_file, CartesianGradient) = {}
    /\ Marked(log_file, FinalEnergy) # {}
    /\ \E j \in 3..Len(log_file) : log_file[j] = << >>
    /\ raised = "IndexError"
    /\ scanned = 2 * Len(log_file) + 1

\* C10: the two histories have the same length, whatever calls were made.
C10_HistoriesSameLength == Len(energies) = Len(forces)

====
